---- MODULE Spec2Model ----
(***************************************************************************)
(* Model of go-ng/xsort: re-sorting a slice whose prefix is already sorted *)
(* and whose last tailLength elements are not.                             *)
(*                                                                         *)
(* Go slices are 0-based; TLA+ sequences are 1-based.  Every index held in *)
(* a variable is the Go index; the helpers below add the 1.                *)
(*                                                                         *)
(* Go's uint is modelled with the 32-bit width it has on 32-bit builds.    *)
(* A uint is held as its two's-complement bit pattern (an integer in       *)
(* -2^31 .. 2^31-1), so int(x) and uint(x) are the identity on the         *)
(* representation and the arithmetic wraps as the machine's does.          *)
(***************************************************************************)
EXTENDS Integers, Sequences, FiniteSets, TLC

\* ------------------------------------------------------------------------
\* Bounds of the model
\* ------------------------------------------------------------------------
MaxLen == 5
MaxVal == 2
MaxBigTail == 2
MaxSize == 70

Values == 0..MaxVal

\* the shortest slice on which shouldUseAppendedWithBuf can accept a tail
MinBufferedLen == 10

\* ------------------------------------------------------------------------
\* 32-bit unsigned arithmetic on bit patterns
\* ------------------------------------------------------------------------
Byte == 2^8

Bytes(x) ==
  <<x % Byte, (x \div Byte) % Byte, (x \div (Byte * Byte)) % Byte,
    (x \div (Byte * Byte * Byte)) % Byte>>

FromBytes(b) ==
  b[1] + Byte * b[2] + Byte * Byte * b[3]
    + Byte * Byte * Byte * (IF b[4] >= Byte \div 2 THEN b[4] - Byte ELSE b[4])

\* a * b on uint
UMul(a, b) ==
  LET x == Bytes(a)
      y == Bytes(b)
      t1 == x[1] * y[1]
      t2 == x[1] * y[2] + x[2] * y[1] + (t1 \div Byte)
      t3 == x[1] * y[3] + x[2] * y[2] + x[3] * y[1] + (t2 \div Byte)
      t4 == x[1] * y[4] + x[2] * y[3] + x[3] * y[2] + x[4] * y[1] + (t3 \div Byte)
  IN FromBytes(<<t1 % Byte, t2 % Byte, t3 % Byte, t4 % Byte>>)

\* a - b on uint (and on int: the bits are the same)
USub(a, b) ==
  LET x == Bytes(a)
      y == Bytes(b)
      t1 == x[1] - y[1]
      t2 == x[2] - y[2] + (t1 \div Byte)
      t3 == x[3] - y[3] + (t2 \div Byte)
      t4 == x[4] - y[4] + (t3 \div Byte)
  IN FromBytes(<<t1 % Byte, t2 % Byte, t3 % Byte, t4 % Byte>>)

\* a < b on uint
ULess(a, b) == IF (a < 0) = (b < 0) THEN a < b ELSE b < 0

\* a / d on uint, for a small power of two d (the result fits an int)
UDiv(a, d) ==
  LET x == Bytes(a)
  IN (x[4] * ((Byte * Byte * Byte) \div d)) + (x[3] * ((Byte * Byte) \div d))
       + (x[2] * (Byte \div d)) + (x[1] \div d)

\* ------------------------------------------------------------------------
\* Slices
\* ------------------------------------------------------------------------
\* q[lo:hi]
SubSlice(q, lo, hi) == [i \in 1..(hi - lo) |-> q[lo + i]]

\* writing w through the sub-slice q[lo:lo+len(w)]
Splice(q, lo, w) ==
  [i \in 1..Len(q) |-> IF lo < i /\ i <= lo + Len(w) THEN w[i - lo] ELSE q[i]]

\* q[i] = v
SetAt(q, i, v) == [q EXCEPT ![i + 1] = v]

Less(q, i, j) == q[i + 1] < q[j + 1]

\* the exchange left out
Swap_None(q, i, j) == q

Swap(q, i, j) == [q EXCEPT ![i + 1] = q[j + 1], ![j + 1] = q[i + 1]]

Reverse(w) == [i \in 1..Len(w) |-> w[Len(w) + 1 - i]]

\* Rotate turning the other way
Rotate_Opposite(w, n) ==
  IF Len(w) = 0 THEN w
  ELSE [i \in 1..Len(w) |-> w[((i - 1 + n) % Len(w)) + 1]]

\* slices.Rotate(w, n): the element at i moves to (i + n) mod len(w)
Rotate(w, n) ==
  IF Len(w) = 0 THEN w
  ELSE [i \in 1..Len(w) |-> w[((i - 1 - n) % Len(w)) + 1]]

\* copy as an element-by-element forward loop, which reads what it has
\* already overwritten when the ranges overlap
RECURSIVE CopyForwardFrom(_, _, _, _, _)
CopyForwardFrom(q, dstLo, srcLo, i, m) ==
  IF i >= m THEN q
  ELSE CopyForwardFrom(SetAt(q, dstLo + i, q[srcLo + i + 1]), dstLo, srcLo, i + 1, m)

Copy_Forward(q, dstLo, dstHi, srcLo) ==
  LET a == dstHi - dstLo
      b == Len(q) - srcLo
  IN CopyForwardFrom(q, dstLo, srcLo, 0, IF a < b THEN a ELSE b)

\* copy(q[dstLo:], q[srcLo:]): the destination not ended at dstHi
CopyLen_OpenDestination(q, dstLo, dstHi, srcLo) == Len(q) - dstLo

\* the number of elements copy(q[dstLo:dstHi], q[srcLo:]) copies: the
\* shorter of the two lengths
CopyLen(q, dstLo, dstHi, srcLo) ==
  LET a == dstHi - dstLo
      b == Len(q) - srcLo
  IN IF a < b THEN a ELSE b

\* copy with a destination one element short
Copy_OneShort(q, dstLo, dstHi, srcLo) ==
  LET m == CopyLen(q, dstLo, dstHi, srcLo) - 1
  IN [i \in 1..Len(q) |->
        IF dstLo < i /\ i <= dstLo + m THEN q[i - dstLo + srcLo] ELSE q[i]]

\* copy(q[dstLo:dstHi], q[srcLo:]) with memmove semantics
Copy(q, dstLo, dstHi, srcLo) ==
  LET m == CopyLen(q, dstLo, dstHi, srcLo)
  IN [i \in 1..Len(q) |->
        IF dstLo < i /\ i <= dstLo + m THEN q[i - dstLo + srcLo] ELSE q[i]]

RECURSIVE Insert(_, _)
Insert(w, v) ==
  IF w = <<>> THEN <<v>>
  ELSE IF v < Head(w) THEN <<v>> \o w
  ELSE <<Head(w)>> \o Insert(Tail(w), v)

\* sort.Sort(w): ascending by Less
RECURSIVE Sort(_)
Sort(w) == IF w = <<>> THEN <<>> ELSE Insert(Sort(Tail(w)), Head(w))

\* the tail sorted with the comparator not reversed
SortReversed_Ascending(w) == Sort(w)

\* sort.Slice(w, func(i, j) { return w.Less(j, i) }): descending
SortReversed(w) == Reverse(Sort(w))

\* the binary search dropping the probed index when the predicate holds there
RECURSIVE SearchLoop_DropsProbe(_, _, _)
SearchLoop_DropsProbe(pred, i, j) ==
  IF i < j
  THEN LET h == (i + j) \div 2
       IN IF ~pred[h + 1] THEN SearchLoop_DropsProbe(pred, h + 1, j)
          ELSE SearchLoop_DropsProbe(pred, i, h - 1)
  ELSE i

\* the binary search going right where the predicate holds
RECURSIVE SearchLoop_Inverted(_, _, _)
SearchLoop_Inverted(pred, i, j) ==
  IF i < j
  THEN LET h == (i + j) \div 2
       IN IF pred[h + 1] THEN SearchLoop_Inverted(pred, h + 1, j)
          ELSE SearchLoop_Inverted(pred, i, h)
  ELSE i

\* sort.Search(n, f): pred[i+1] = f(i); the binary search as it is computed
RECURSIVE SearchLoop(_, _, _)
SearchLoop(pred, i, j) ==
  IF i < j
  THEN LET h == (i + j) \div 2
       IN IF ~pred[h + 1] THEN SearchLoop(pred, h + 1, j)
          ELSE SearchLoop(pred, i, h)
  ELSE i

Search(n, pred) == SearchLoop(pred, 0, n)

\* ------------------------------------------------------------------------
\* Heuristic selectors
\* ------------------------------------------------------------------------
shouldUseAppended(totalSize, tailSize) ==
  IF ULess(totalSize, 512)
  THEN ULess(UMul(tailSize, 4), totalSize)
  ELSE ULess(UDiv(UMul(tailSize, tailSize), 64), totalSize)

shouldUseAppendedWithBuf(totalSize, tailSize) ==
  IF ULess(totalSize, 10) THEN FALSE
  ELSE IF ULess(totalSize, 64) THEN ULess(UMul(tailSize, 3), totalSize)
  ELSE IF ULess(totalSize, 256) THEN ULess(UMul(tailSize, 2), totalSize)
  ELSE ULess(UMul(tailSize, 5), UMul(totalSize, 3))

\* ------------------------------------------------------------------------
\* State
\* ------------------------------------------------------------------------
VARIABLES
  op,                \* the function the caller invoked
  pc,                \* the function or loop about to run; "done"; "panic"
  s,                 \* the slice
  buf,               \* the caller's buffer (AppendedWithBuf and its engine)
  tailLength,        \* the tailLength argument (a uint bit pattern)
  s0, buf0,          \* s and buf at call time
  tailLength0,       \* tailLength at call time
  err,               \* what the panic carries
  path,              \* "noop", "fallback" (sort.Sort of the whole slice), "engine"
  iters,             \* iterations of an engine's loop executed so far
  splitIdx,
  unsortedStartIdx, unsortedEnd, unsortedCount,
  leftIdx,           \* the last result of sort.Search
  branch,            \* the branch the last iteration of the in-place loop took
  base,              \* heapAppendSort: where its argument s[base:] starts
  depth,             \* heapAppendSort: recursive calls made so far
  hlen,              \* heapAppendSort: len(h); h is s[splitIdx:splitIdx+hlen]
  idx, rightIdx, hasRight, hasHeap,
  copies,            \* the bulk copies of the buffered loop so far, in order
  sel                \* the selector under study, its arguments and results

vars ==
  <<op, pc, s, buf, tailLength, s0, buf0, tailLength0, err, path, iters, splitIdx,
    unsortedStartIdx, unsortedEnd, unsortedCount, leftIdx, branch,
    base, depth, hlen, idx, rightIdx, hasRight, hasHeap, copies, sel>>

heapVars == <<base, depth, hlen, idx, rightIdx, hasRight, hasHeap>>

loopVars ==
  <<splitIdx, unsortedStartIdx, unsortedEnd, unsortedCount, leftIdx, branch, heapVars,
    copies>>

\* ------------------------------------------------------------------------
\* Inputs
\* ------------------------------------------------------------------------
\* the ascending sequences of length m over 0..top
RECURSIVE SortedSeqs(_, _)
SortedSeqs(m, top) ==
  IF m = 0 THEN {<<>>}
  ELSE UNION {{Append(p, v) : p \in SortedSeqs(m - 1, v)} : v \in 0..top}

\* the tails of length k of a slice of length n: every tail of a short
\* slice; of a long one, the tails in descending order
Tails(n, k) ==
  IF n <= MaxLen THEN [1..k -> Values]
  ELSE {Reverse(w) : w \in SortedSeqs(k, MaxVal)}

\* tail lengths that are not lengths of any tail of the slice: above len(s),
\* where 4*k or k*k wraps, and beyond the range of int
MaxInt == 2147483647
HugeTails == {65536, 1073741824, MaxInt, -MaxInt - 1, -1}

TailLengths == (0..MinBufferedLen) \cup HugeTails

EntryPoints == {"Appended", "AppendedWithBuf"}

\* the longest slice heapAppendSort is called on: the shortest on which it
\* recurses has a tail of 9 elements; one with a prefix that can be unsorted
\* has two more
MaxHeapLen == MinBufferedLen + 1

\* the calls made: every tail length on short slices (one past the length
\* included); the huge tail lengths on the shortest slices; through the entry
\* points, short tails on slices long enough for both heuristics to accept;
\* on heapAppendSort, every tail of those slices, the main pass and the
\* recursion needing a long prefix and a long tail, and the tail it recurses
\* on behind a prefix of two elements
InputShape(o, n, k) ==
  \/ n <= MaxLen /\ 0 <= k /\ k <= n + 1
  \/ n <= 2 /\ k \in HugeTails
  \/ o \in EntryPoints /\ n = MinBufferedLen /\ 1 <= k /\ k <= MaxBigTail
  \/ o = "heapAppendSort" /\ n = MinBufferedLen /\ 1 <= k /\ k < n
  \/ o = "heapAppendSort" /\ n = MaxHeapLen /\ k = n - 2

\* the length of the sorted prefix of a slice of length n called with tail k:
\* a short slice holds anything (the caller may break the contract), a long
\* one has its prefix sorted
PrefixLen(n, k) == IF n <= MaxLen THEN 0 ELSE n - k

\* the prefixes of the long slices: sorted; on the longest, heapAppendSort
\* is also called out of its contract, on prefixes in descending order
Prefixes(o, n, k) ==
  SortedSeqs(PrefixLen(n, k), MaxVal)
    \cup (IF o = "heapAppendSort" /\ n = MaxHeapLen
          THEN {Reverse(w) : w \in SortedSeqs(PrefixLen(n, k), MaxVal)}
          ELSE {})

\* the buffers a caller passes: fresh from make, or holding the appended
\* elements
Buffers(q, k) ==
  {[i \in 1..k |-> 0]}
    \cup (IF k <= Len(q) THEN {SubSlice(q, Len(q) - k, Len(q))} ELSE {})

NoSel ==
  [fn |-> "none", totalSize |-> 0, tailSize |-> 0, result |-> FALSE, rejected |-> FALSE]

Init ==
  /\ sel = NoSel
  /\ op \in {"Appended", "AppendedWithBuf", "groupInsertAppendSort",
             "groupInsertAppendSortWithBuf", "heapAppendSort"}
  /\ \E n \in 0..MaxHeapLen, k \in TailLengths :
       /\ InputShape(op, n, k)
       /\ \E p \in Prefixes(op, n, k), t \in Tails(n, n - PrefixLen(n, k)) :
            s = p \o t
       /\ tailLength = k
       /\ IF op \in {"AppendedWithBuf", "groupInsertAppendSortWithBuf"}
          THEN /\ k \in 0..(n + 1)
               /\ buf \in Buffers(s, k)
          ELSE buf = <<>>
  /\ pc = op
  /\ s0 = s
  /\ tailLength0 = tailLength
  /\ buf0 = buf
  /\ err = "none"
  /\ path = "none"
  /\ iters = 0
  /\ splitIdx = 0
  /\ unsortedStartIdx = 0
  /\ unsortedEnd = 0
  /\ unsortedCount = 0
  /\ leftIdx = 0
  /\ branch = "none"
  /\ base = 0
  /\ depth = 0
  /\ hlen = 0
  /\ idx = 0
  /\ rightIdx = 0
  /\ hasRight = FALSE
  /\ hasHeap = FALSE
  /\ copies = <<>>

\* ------------------------------------------------------------------------
\* Entry points
\* ------------------------------------------------------------------------
Panic(e) == pc' = "panic" /\ err' = e

\* Appended with the length check inverted
AppendedRoute_InvertedCheck(length, tl) ==
  IF tl = 0 THEN "return"
  ELSE IF ~shouldUseAppended(length, tl)
  THEN IF ULess(tl, length) THEN "panic" ELSE "sort"
  ELSE "engine"

\* what Appended does with a slice of this length: "return", "panic",
\* "sort" (sort.Sort of the whole slice) or "engine"
AppendedRoute(length, tl) ==
  IF tl = 0 THEN "return"
  ELSE IF ~shouldUseAppended(length, tl)
  THEN IF ULess(length, tl) THEN "panic" ELSE "sort"
  ELSE "engine"

Appended ==
  /\ pc = "Appended"
  /\ LET route == AppendedRoute(Len(s), tailLength)
     IN /\ pc' = CASE route = "return" -> "done"
                   [] route = "panic" -> "panic"
                   [] route = "sort" -> "done"
                   [] route = "engine" -> "groupInsertAppendSort"
        /\ err' = IF route = "panic" THEN "tailTooLong" ELSE err
        /\ s' = IF route = "sort" THEN Sort(s) ELSE s
        /\ path' = CASE route = "return" -> "noop"
                     [] route = "sort" -> "fallback"
                     [] OTHER -> path
  /\ UNCHANGED <<sel, op, buf, tailLength, s0, buf0, tailLength0, iters, loopVars>>

\* AppendedWithBuf without the early return on an empty buffer
AppendedWithBufRoute_NoEarlyReturn(length, tl) ==
  IF ~shouldUseAppendedWithBuf(length, tl)
  THEN IF ULess(length, tl) THEN "panic" ELSE "sort"
  ELSE "engine"

AppendedWithBufRoute(length, tl) ==
  IF tl = 0 THEN "return"
  ELSE IF ~shouldUseAppendedWithBuf(length, tl)
  THEN IF ULess(length, tl) THEN "panic" ELSE "sort"
  ELSE "engine"

AppendedWithBuf ==
  /\ pc = "AppendedWithBuf"
  /\ LET route == AppendedWithBufRoute(Len(s), Len(buf))
     IN /\ pc' = CASE route = "return" -> "done"
                   [] route = "panic" -> "panic"
                   [] route = "sort" -> "done"
                   [] route = "engine" -> "groupInsertAppendSortWithBuf"
        /\ err' = IF route = "panic" THEN "tailTooLong" ELSE err
        /\ s' = IF route = "sort" THEN Sort(s) ELSE s
        /\ path' = CASE route = "return" -> "noop"
                     [] route = "sort" -> "fallback"
                     [] OTHER -> path
  /\ UNCHANGED <<sel, op, buf, tailLength, s0, buf0, tailLength0, iters, loopVars>>

\* ------------------------------------------------------------------------
\* The in-place engine
\* ------------------------------------------------------------------------
\* s[lo:hi] is a slice of s
InRange(lo, hi) == 0 <= lo /\ lo <= hi /\ hi <= Len(s)

\* groupInsertAppendSort without the splitIdx == 0 delegation to sort.Sort
groupInsertAppendSortRoute_NoFullSort(length, tl) ==
  IF tl > length THEN "panic"
  ELSE IF ULess(length, USub(length, tl)) THEN "outOfRange"
  ELSE "loop"

\* what groupInsertAppendSort does before its loop: "panic" (the tail is
\* longer than the slice), "sort" (sort.Sort of the whole slice),
\* "outOfRange" (s[splitIdx:] is no slice of s) or "loop"
groupInsertAppendSortRoute(length, tl) ==
  IF tl > length THEN "panic"
  ELSE IF USub(length, tl) = 0 THEN "sort"
  ELSE IF ULess(length, USub(length, tl)) THEN "outOfRange"
  ELSE "loop"

groupInsertAppendSort ==
  /\ pc = "groupInsertAppendSort"
  /\ LET length == Len(s)
         split == USub(length, tailLength)
         route == groupInsertAppendSortRoute(length, tailLength)
     IN IF route = "panic"
        THEN /\ Panic("tailTooLong")
             /\ UNCHANGED <<s, path, loopVars>>
        ELSE IF route = "sort"
        THEN /\ s' = Sort(s)
             /\ pc' = "done"
             /\ path' = "fallback"
             /\ UNCHANGED <<err, loopVars>>
        ELSE IF route = "outOfRange"
        THEN /\ Panic("outOfRange")
             /\ UNCHANGED <<s, path, loopVars>>
        ELSE /\ s' = Splice(s, split, SortReversed(SubSlice(s, split, length)))
             /\ splitIdx' = split
             /\ unsortedStartIdx' = split
             /\ unsortedEnd' = length
             /\ unsortedCount' = tailLength
             /\ pc' = "groupInsertAppendSortLoop"
             /\ path' = "engine"
             /\ UNCHANGED <<err, leftIdx, branch, heapVars, copies>>
  /\ UNCHANGED <<sel, op, buf, tailLength, s0, buf0, tailLength0, iters>>

\* the slice after Rotate(s[lo:hi], n)
RotateIn(q, lo, hi, n) == Splice(q, lo, Rotate(SubSlice(q, lo, hi), n))

\* one iteration of the loop: [s, start, brk, branch, ok]
groupInsertAppendSortBody(q, u, c, uEnd, l) ==
  IF l = u
  THEN IF u = 0
       THEN [s |-> Splice(q, 0, Reverse(SubSlice(q, 0, c))), start |-> u,
             brk |-> TRUE, branch |-> "reverse", ok |-> InRange(0, c)]
       ELSE LET l2 == IF l > 0 THEN l - 1 ELSE l
            IN IF Less(q, u, u - 1)
               THEN [s |-> RotateIn(q, l2, l2 + c + 1, -2), start |-> l2,
                     brk |-> FALSE, branch |-> "rotate2",
                     ok |-> InRange(l2, l2 + c + 1)]
               ELSE [s |-> RotateIn(q, l2 + 1, l2 + c + 1, -1), start |-> l2 + 1,
                     brk |-> FALSE, branch |-> "rotate1",
                     ok |-> InRange(l2 + 1, l2 + c + 1)]
  ELSE LET q1 == RotateIn(q, l + 1, uEnd, uEnd - u)
           q2 == Swap(q1, l, l + 1)
       IN [s |-> RotateIn(q2, l, l + c + 1, -2), start |-> l,
           brk |-> FALSE, branch |-> "insert",
           ok |-> InRange(l + 1, uEnd) /\ InRange(l, l + c + 1)]

groupInsertAppendSortLoop ==
  /\ pc = "groupInsertAppendSortLoop"
  /\ IF unsortedCount = 0
     THEN /\ pc' = "done"
          /\ UNCHANGED <<s, err, iters, loopVars>>
     ELSE IF ~(unsortedStartIdx < Len(s))
     THEN /\ Panic("outOfRange")
          /\ UNCHANGED <<s, iters, loopVars>>
     ELSE LET u == unsortedStartIdx
              l == Search(u, [i \in 1..u |-> Less(s, u, i - 1)])
              r == groupInsertAppendSortBody(s, u, unsortedCount, unsortedEnd, l)
          IN IF ~r.ok
             THEN /\ Panic("outOfRange")
                  /\ UNCHANGED <<s, iters, loopVars>>
             ELSE /\ s' = r.s
                  /\ leftIdx' = l
                  /\ branch' = r.branch
                  /\ iters' = iters + 1
                  /\ unsortedStartIdx' = r.start
                  /\ IF r.brk
                     THEN /\ pc' = "done"
                          /\ UNCHANGED <<unsortedEnd, unsortedCount>>
                     ELSE /\ pc' = pc
                          /\ unsortedEnd' = r.start + unsortedCount - 1
                          /\ unsortedCount' = unsortedCount - 1
                  /\ UNCHANGED <<err, splitIdx, heapVars, copies>>
  /\ UNCHANGED <<sel, op, buf, tailLength, s0, buf0, tailLength0, path>>

\* ------------------------------------------------------------------------
\* The buffered engine
\* ------------------------------------------------------------------------
\* the buffer left as the caller passed it
groupInsertAppendSortWithBufPrepare_NoCopy(q, b) ==
  LET split == Len(q) - Len(b)
  IN [s |-> Splice(q, split, Sort(SubSlice(q, split, Len(q)))), buf |-> b]

\* sort.Sort(rightPart); copy(buf, rightPart): [s, buf]
groupInsertAppendSortWithBufPrepare(q, b) ==
  LET split == Len(q) - Len(b)
      rightPart == Sort(SubSlice(q, split, Len(q)))
  IN [s |-> Splice(q, split, rightPart),
      buf |-> [i \in 1..Len(b) |-> IF i <= Len(rightPart) THEN rightPart[i] ELSE b[i]]]

groupInsertAppendSortWithBuf ==
  /\ pc = "groupInsertAppendSortWithBuf"
  /\ LET tl == Len(buf)
         length == Len(s)
         split == length - tl
     IN IF tl > length
        THEN /\ Panic("tailTooLong")
             /\ UNCHANGED <<s, buf, path, loopVars>>
        ELSE IF split = 0
        THEN /\ s' = Sort(s)
             /\ pc' = "done"
             /\ path' = "fallback"
             /\ UNCHANGED <<buf, err, loopVars>>
        ELSE /\ s' = groupInsertAppendSortWithBufPrepare(s, buf).s
             /\ buf' = groupInsertAppendSortWithBufPrepare(s, buf).buf
             /\ splitIdx' = split
             /\ unsortedStartIdx' = split
             /\ unsortedEnd' = length
             /\ unsortedCount' = tl
             /\ pc' = "groupInsertAppendSortWithBufLoop"
             /\ path' = "engine"
             /\ UNCHANGED <<err, leftIdx, branch, heapVars, copies>>
  /\ UNCHANGED <<sel, op, tailLength, s0, buf0, tailLength0, iters>>

\* the iteration without the write of the candidate at unsortedStartIdx
groupInsertAppendSortWithBufBody_NoCandidate(q, b, u, c, uEnd) ==
  LET l == Search(u, [i \in 1..u |-> Less(q, u, i - 1)])
      copyTo == l + c
      q2 == Copy(q, copyTo, uEnd, l)
  IN [s |-> SetAt(q2, l + c - 1, b[c]), start |-> l, ok |-> InRange(copyTo, uEnd),
      copy |-> [src |-> l, dst |-> copyTo, n |-> CopyLen(q, copyTo, uEnd, l)]]

\* one iteration of the loop: [s, start, ok, copy], where copy says which
\* positions the bulk copy reads (from src) and writes (from dst)
groupInsertAppendSortWithBufBody(q, b, u, c, uEnd) ==
  LET q1 == SetAt(q, u, b[c])
      l == Search(u, [i \in 1..u |-> Less(q1, u, i - 1)])
      copyTo == l + c
      q2 == Copy(q1, copyTo, uEnd, l)
  IN [s |-> SetAt(q2, l + c - 1, b[c]), start |-> l, ok |-> InRange(copyTo, uEnd),
      copy |-> [src |-> l, dst |-> copyTo, n |-> CopyLen(q1, copyTo, uEnd, l)]]

groupInsertAppendSortWithBufLoop ==
  /\ pc = "groupInsertAppendSortWithBufLoop"
  /\ IF unsortedCount = 0
     THEN /\ pc' = "done"
          /\ UNCHANGED <<s, err, iters, loopVars>>
     ELSE IF ~(unsortedStartIdx < Len(s))
     THEN /\ Panic("outOfRange")
          /\ UNCHANGED <<s, iters, loopVars>>
     ELSE LET r == groupInsertAppendSortWithBufBody(s, buf, unsortedStartIdx,
                                                   unsortedCount, unsortedEnd)
          IN IF ~r.ok
             THEN /\ Panic("outOfRange")
                  /\ UNCHANGED <<s, iters, loopVars>>
             ELSE /\ s' = r.s
                  /\ leftIdx' = r.start
                  /\ iters' = iters + 1
                  /\ unsortedStartIdx' = r.start
                  /\ unsortedEnd' = r.start + unsortedCount - 1
                  /\ unsortedCount' = unsortedCount - 1
                  /\ pc' = pc
                  /\ copies' = Append(copies, r.copy)
                  /\ UNCHANGED <<err, splitIdx, branch, heapVars>>
  /\ UNCHANGED <<sel, op, buf, tailLength, s0, buf0, tailLength0, path>>

\* the loop run to its end from (q, b, u, c, uEnd): [s, ok], where ok says
\* that it ended without an index out of range
RECURSIVE groupInsertAppendSortWithBufRun(_, _, _, _, _)
groupInsertAppendSortWithBufRun(q, b, u, c, uEnd) ==
  IF c = 0 THEN [s |-> q, ok |-> TRUE]
  ELSE IF ~(u < Len(q)) THEN [s |-> q, ok |-> FALSE]
  ELSE LET r == groupInsertAppendSortWithBufBody(q, b, u, c, uEnd)
       IN IF ~r.ok THEN [s |-> q, ok |-> FALSE]
          ELSE groupInsertAppendSortWithBufRun(r.s, b, r.start, c - 1, r.start + c - 1)

\* a whole call of groupInsertAppendSortWithBuf(q, b): [s, ok], where ok
\* says that it returned
groupInsertAppendSortWithBufResult(q, b) ==
  IF Len(b) > Len(q) THEN [s |-> q, ok |-> FALSE]
  ELSE IF Len(q) - Len(b) = 0 THEN [s |-> Sort(q), ok |-> TRUE]
  ELSE LET r == groupInsertAppendSortWithBufPrepare(q, b)
       IN groupInsertAppendSortWithBufRun(r.s, r.buf, Len(q) - Len(b), Len(b), Len(q))

\* a whole call of AppendedWithBuf(q, b): [s, ok]
AppendedWithBufResult(q, b) ==
  LET route == AppendedWithBufRoute(Len(q), Len(b))
  IN CASE route = "return" -> [s |-> q, ok |-> TRUE]
       [] route = "panic" -> [s |-> q, ok |-> FALSE]
       [] route = "sort" -> [s |-> Sort(q), ok |-> TRUE]
       [] route = "engine" -> groupInsertAppendSortWithBufResult(q, b)

\* ------------------------------------------------------------------------
\* The heap-merge engine
\* ------------------------------------------------------------------------
\* the recursion decided by the in-place selector of Appended
sort_shouldUseAppended_InPlace(totalSize, tailSize) ==
  shouldUseAppended(totalSize, tailSize)

\* the selector of heapAppendSort's package
sort_shouldUseAppended(totalSize, tailSize) ==
  IF ~ULess(4, totalSize) THEN FALSE
  ELSE IF ~ULess(128, totalSize) THEN ULess(UMul(8, tailSize), totalSize)
  ELSE IF ~ULess(4096, totalSize)
  THEN ULess(UMul(UMul(tailSize, tailSize), 4), totalSize)
  ELSE ULess(tailSize, 64)

\* Push without the sift-up
heapUp_None(q, hb, j) == q

\* container/heap on h = q[hb:hb+n], ordered by h.Less
RECURSIVE heapUp(_, _, _)
heapUp(q, hb, j) ==
  LET i == (j - 1) \div 2
  IN IF j = 0 \/ ~Less(q, hb + j, hb + i) THEN q
     ELSE heapUp(Swap(q, hb + i, hb + j), hb, i)

\* Pop without the sift-down
heapDown_None(q, hb, i, n) == q

RECURSIVE heapDown(_, _, _, _)
heapDown(q, hb, i, n) ==
  LET j1 == 2 * i + 1
      j == IF j1 + 1 < n /\ Less(q, hb + j1 + 1, hb + j1) THEN j1 + 1 ELSE j1
  IN IF j1 >= n THEN q
     ELSE IF ~Less(q, hb + j, hb + i) THEN q
     ELSE heapDown(Swap(q, hb + i, hb + j), hb, j, n)

\* heap.Push(&h, x): append, then sift up; h has grown by one
heapPush(q, hb, n, x) == heapUp(SetAt(q, hb + n, x), hb, n)

\* heap.Pop(&h): the minimum is left at q[hb+n-1]; h has shrunk by one
heapPop(q, hb, n) == heapDown(Swap(q, hb, hb + n - 1), hb, 0, n - 1)

\* len(s) of the current call, whose s is s[base:] of the caller's slice
WinLen == Len(s) - base

heapAppendSort ==
  /\ pc = "heapAppendSort"
  /\ LET split == USub(WinLen, tailLength)
         q1 == Splice(s, base + split, Sort(SubSlice(s, base + split, Len(s))))
         modifyStart == Search(split, [i \in 1..split |-> Less(q1, base + split, base + i - 1)])
     IN IF tailLength = 0
        THEN /\ pc' = "done"
             /\ path' = IF depth = 0 THEN "noop" ELSE path
             /\ UNCHANGED <<s, err, splitIdx, leftIdx, heapVars>>
        ELSE IF split = 0
        THEN /\ s' = Splice(s, base, Sort(SubSlice(s, base, Len(s))))
             /\ pc' = "done"
             /\ path' = IF depth = 0 THEN "fallback" ELSE path
             /\ UNCHANGED <<err, splitIdx, leftIdx, heapVars>>
        ELSE IF split < 0 \/ split > WinLen
        THEN /\ Panic("outOfRange")
             /\ UNCHANGED <<s, path, splitIdx, leftIdx, heapVars>>
        ELSE IF ~Less(q1, base + split, base + split - 1)
        THEN /\ s' = q1
             /\ pc' = "done"
             /\ path' = "engine"
             /\ splitIdx' = split
             /\ UNCHANGED <<err, leftIdx, heapVars>>
        ELSE IF modifyStart >= split
        THEN /\ s' = q1
             /\ Panic("shouldNotHappen")
             /\ UNCHANGED <<path, splitIdx, leftIdx, heapVars>>
        ELSE /\ s' = q1
             /\ pc' = "heapAppendSortLoop"
             /\ path' = "engine"
             /\ splitIdx' = split
             /\ leftIdx' = modifyStart
             /\ idx' = modifyStart
             /\ rightIdx' = split
             /\ hasRight' = TRUE
             /\ hasHeap' = FALSE
             /\ hlen' = 0
             /\ UNCHANGED <<err, base, depth>>
  /\ UNCHANGED <<sel, op, buf, tailLength, s0, buf0, tailLength0, iters,
                 unsortedStartIdx, unsortedEnd, unsortedCount, branch, copies>>

\* one iteration of the main pass
heapAppendSortLoop ==
  /\ pc = "heapAppendSortLoop"
  /\ LET hb == base + splitIdx
         availFromHeap == hasHeap /\ Less(s, hb, base + idx)
         availFromRight == hasRight /\ Less(s, base + rightIdx, base + idx)
         old == s[base + idx + 1]
         fromHeap == availFromHeap /\ (~availFromRight \/ Less(s, hb, base + rightIdx))
         \* the pull: [s, hlen, rightIdx, hasRight, hasHeap, availFromRight]
         pulled ==
           IF fromHeap
           THEN LET q1 == heapPop(s, hb, hlen)
                IN [s |-> SetAt(q1, base + idx, q1[hb + hlen]), hlen |-> hlen - 1,
                    rightIdx |-> rightIdx, hasRight |-> hasRight,
                    hasHeap |-> hlen - 1 > 0, availFromRight |-> availFromRight]
           ELSE [s |-> SetAt(s, base + idx, s[base + rightIdx + 1]), hlen |-> hlen,
                 rightIdx |-> rightIdx + 1, hasRight |-> rightIdx + 1 < WinLen,
                 hasHeap |-> hasHeap,
                 availFromRight |-> rightIdx + 1 < WinLen
                                      /\ Less(s, base + rightIdx + 1, base + idx)]
     IN IF ~(idx < splitIdx) \/ (~hasRight /\ ~hasHeap)
        THEN /\ pc' = "heapAppendSortAfter"
             /\ UNCHANGED <<s, err, iters, hlen, idx, rightIdx, hasRight, hasHeap>>
        ELSE IF hasRight /\ ~(rightIdx < WinLen)
        THEN /\ Panic("outOfRange")
             /\ UNCHANGED <<s, iters, hlen, idx, rightIdx, hasRight, hasHeap>>
        ELSE IF ~availFromRight /\ ~availFromHeap
        THEN /\ idx' = idx + 1
             /\ iters' = iters + 1
             /\ pc' = pc
             /\ UNCHANGED <<s, err, hlen, rightIdx, hasRight, hasHeap>>
        ELSE IF ~pulled.availFromRight
        THEN /\ IF pulled.rightIdx - 1 < 0
                THEN /\ Panic("outOfRange")
                     /\ s' = pulled.s
                ELSE /\ s' = SetAt(pulled.s, base + pulled.rightIdx - 1, old)
                     /\ pc' = pc
                     /\ UNCHANGED err
             /\ rightIdx' = pulled.rightIdx - 1
             /\ hasRight' = TRUE
             /\ hlen' = pulled.hlen
             /\ hasHeap' = pulled.hasHeap
             /\ idx' = idx + 1
             /\ iters' = iters + 1
        \* an append past len(s) would take h out of the slice (into spare
        \* capacity or a new array); the run is stopped there
        ELSE IF ~(hb + pulled.hlen < Len(s))
        THEN /\ Panic("heapGrewPastSlice")
             /\ s' = pulled.s
             /\ UNCHANGED <<iters, hlen, idx, rightIdx, hasRight, hasHeap>>
        ELSE /\ s' = heapPush(pulled.s, hb, pulled.hlen, old)
             /\ hlen' = pulled.hlen + 1
             /\ hasHeap' = TRUE
             /\ rightIdx' = pulled.rightIdx
             /\ hasRight' = pulled.hasRight
             /\ idx' = idx + 1
             /\ iters' = iters + 1
             /\ pc' = pc
             /\ UNCHANGED err
  /\ UNCHANGED <<sel, op, buf, tailLength, s0, buf0, tailLength0, path, splitIdx,
                 unsortedStartIdx, unsortedEnd, unsortedCount, leftIdx, branch,
                 base, depth, copies>>

\* the recursive call made with the tail length of the current call
heapAppendSortRecursion_SameTail(q, hb, tl, m) ==
  [s |-> RotateIn(q, hb, Len(q), tl - m), base |-> hb, tailLength |-> tl]

\* slices.Rotate(s[splitIdx:], int(tailLength)-len(h)) and the call
\* heapAppendSort(s[splitIdx:], uint(len(h))): the slice, and where the
\* callee's slice starts and its tail length
heapAppendSortRecursion(q, hb, tl, m) ==
  [s |-> RotateIn(q, hb, Len(q), tl - m), base |-> hb, tailLength |-> m]

\* after the main pass: return, sort the tail, or rotate it and recurse
heapAppendSortAfter ==
  /\ pc = "heapAppendSortAfter"
  /\ LET hb == base + splitIdx
     IN IF hlen = 0
        THEN /\ pc' = "done"
             /\ UNCHANGED <<s, err, tailLength, base, depth, branch>>
        ELSE IF hlen = 1 /\ ~(rightIdx < WinLen)
        THEN /\ Panic("outOfRange")
             /\ UNCHANGED <<s, tailLength, base, depth, branch>>
        ELSE IF hlen = 1 /\ Less(s, hb, base + rightIdx)
        THEN /\ pc' = "done"
             /\ UNCHANGED <<s, err, tailLength, base, depth, branch>>
        ELSE IF ~sort_shouldUseAppended(tailLength, hlen)
        THEN /\ s' = Splice(s, hb, Sort(SubSlice(s, hb, Len(s))))
             /\ pc' = "done"
             /\ branch' = "sortTail"
             /\ UNCHANGED <<err, tailLength, base, depth>>
        ELSE /\ s' = heapAppendSortRecursion(s, hb, tailLength, hlen).s
             /\ base' = heapAppendSortRecursion(s, hb, tailLength, hlen).base
             /\ tailLength' = heapAppendSortRecursion(s, hb, tailLength, hlen).tailLength
             /\ depth' = depth + 1
             /\ pc' = "heapAppendSort"
             /\ branch' = "recurse"
             /\ UNCHANGED err
  /\ UNCHANGED <<sel, op, buf, s0, buf0, tailLength0, path, iters, splitIdx,
                 unsortedStartIdx, unsortedEnd, unsortedCount, leftIdx,
                 hlen, idx, rightIdx, hasRight, hasHeap, copies>>


Next ==
  \/ Appended
  \/ AppendedWithBuf
  \/ groupInsertAppendSort
  \/ groupInsertAppendSortLoop
  \/ groupInsertAppendSortWithBuf
  \/ groupInsertAppendSortWithBufLoop
  \/ heapAppendSort
  \/ heapAppendSortLoop
  \/ heapAppendSortAfter

Spec == Init /\ [][Next]_vars

\* ------------------------------------------------------------------------
\* The selectors on their own: a caller asks about one slice length and
\* growing tail sizes
\* ------------------------------------------------------------------------
\* the sizes asked about: all the small ones, and those around the bucket
\* limits of the selectors and around the points where their products wrap
Sizes ==
  (0..MaxSize)
    \cup {255, 256, 257, 511, 512, 513, 4095, 4096, 4097}
    \cup {65535, 65536, 65537, 100000}
    \cup {858993459, 858993460, 1000000000, 1431655765, 1431655766, MaxInt}

Selector(fn, totalSize, tailSize) ==
  IF fn = "shouldUseAppended" THEN shouldUseAppended(totalSize, tailSize)
  ELSE shouldUseAppendedWithBuf(totalSize, tailSize)

SelInit ==
  /\ \E fn \in {"shouldUseAppended", "shouldUseAppendedWithBuf"},
        n \in Sizes, k \in Sizes :
       /\ k <= n
       /\ sel = [fn |-> fn, totalSize |-> n, tailSize |-> k,
                 result |-> Selector(fn, n, k), rejected |-> FALSE]
  /\ op = "selector"
  /\ pc = "selector"
  /\ s = <<>>
  /\ buf = <<>>
  /\ tailLength = 0
  /\ s0 = <<>>
  /\ buf0 = <<>>
  /\ tailLength0 = 0
  /\ err = "none"
  /\ path = "none"
  /\ iters = 0
  /\ splitIdx = 0
  /\ unsortedStartIdx = 0
  /\ unsortedEnd = 0
  /\ unsortedCount = 0
  /\ leftIdx = 0
  /\ branch = "none"
  /\ base = 0
  /\ depth = 0
  /\ hlen = 0
  /\ idx = 0
  /\ rightIdx = 0
  /\ hasRight = FALSE
  /\ hasHeap = FALSE
  /\ copies = <<>>

\* the selector asked again about the same slice with a larger tail
SelectorCall(fn) ==
  /\ pc = "selector"
  /\ sel.fn = fn
  /\ \E k \in Sizes :
       /\ sel.tailSize < k
       /\ k <= sel.totalSize
       /\ sel' = [sel EXCEPT !.tailSize = k,
                             !.result = Selector(fn, sel.totalSize, k),
                             !.rejected = sel.rejected \/ ~sel.result]
  /\ UNCHANGED <<op, pc, s, buf, tailLength, s0, buf0, tailLength0, err, path, iters,
                 loopVars>>

shouldUseAppendedCall == SelectorCall("shouldUseAppended")

shouldUseAppendedWithBufCall == SelectorCall("shouldUseAppendedWithBuf")

SelNext == shouldUseAppendedCall \/ shouldUseAppendedWithBufCall

SpecSelectors == SelInit /\ [][SelNext]_vars

\* ------------------------------------------------------------------------
\* Properties
\* ------------------------------------------------------------------------
IsSorted(q) == \A i \in 1..(Len(q) - 1) : q[i] <= q[i + 1]

Count(q, v) == Cardinality({i \in 1..Len(q) : q[i] = v})

SameElements(q, r) == Len(q) = Len(r) /\ \A v \in Values : Count(q, v) = Count(r, v)

HasDuplicates(q) == \E i, j \in 1..Len(q) : i # j /\ q[i] = q[j]

Returned == pc = "done"
Panicked == pc = "panic"

\* the caller's contract: 0 <= k <= n and s[0..n-k) sorted ascending
Precondition ==
  /\ 0 <= tailLength0
  /\ tailLength0 <= Len(s0)
  /\ IsSorted(SubSlice(s0, 0, Len(s0) - tailLength0))

\* sorted, and a permutation of the slice at call time
Resorted == IsSorted(s) /\ SameElements(s, s0)

\* C1: Appended, called within its contract, does not panic and returns with
\* s sorted ascending and holding the elements it held at call time, on the
\* fallback path and on the engine path alike.
C1_Appended ==
  (op = "Appended" /\ Precondition) => /\ ~Panicked
                                        /\ Returned => Resorted

C1_Witness ==
  /\ op = "Appended" /\ Precondition /\ Returned
  /\ path = "engine" /\ iters > 0 /\ s # s0

\* C2: AppendedWithBuf, called within its contract with a buffer of k
\* elements of any contents, does not panic and returns with s sorted
\* ascending and holding the elements it held at call time.
C2_AppendedWithBuf ==
  (op = "AppendedWithBuf" /\ Precondition) => /\ ~Panicked
                                               /\ Returned => Resorted

C2_Witness ==
  /\ op = "AppendedWithBuf" /\ Precondition /\ Returned
  /\ path = "engine" /\ iters > 0 /\ s # s0 /\ buf0 # SubSlice(s0, Len(s0) - Len(buf0), Len(s0))

\* C3: groupInsertAppendSort called directly with any k in 0..n on a slice
\* with a sorted prefix does not panic and leaves s sorted and a permutation
\* of its initial contents, also for tails the heuristic rejects and with
\* duplicate values.
C3_groupInsertAppendSort ==
  (op = "groupInsertAppendSort" /\ Precondition) => /\ ~Panicked
                                                     /\ Returned => Resorted

C3_Witness ==
  /\ op = "groupInsertAppendSort" /\ Precondition /\ Returned
  /\ Len(s0) = 3 /\ tailLength0 = 2 /\ ~shouldUseAppended(Len(s0), tailLength0)
  /\ HasDuplicates(s0) /\ iters = 2 /\ s # s0

\* C4: groupInsertAppendSortWithBuf called directly with a buffer of any
\* length k in 0..n on a slice with a sorted prefix does not panic and leaves
\* s sorted and a permutation of its initial contents, also for tails the
\* heuristic rejects and with duplicate values.
C4_groupInsertAppendSortWithBuf ==
  (op = "groupInsertAppendSortWithBuf" /\ Precondition) => /\ ~Panicked
                                                            /\ Returned => Resorted

C4_Witness ==
  /\ op = "groupInsertAppendSortWithBuf" /\ Precondition /\ Returned
  /\ Len(s0) = 3 /\ Len(buf0) = 2 /\ ~shouldUseAppendedWithBuf(Len(s0), Len(buf0))
  /\ HasDuplicates(s0) /\ iters = 2 /\ s # s0

Engines == {"groupInsertAppendSort", "groupInsertAppendSortWithBuf", "heapAppendSort"}

TailTooLong == ULess(Len(s0), tailLength0)

\* C6: every engine called directly with a tail longer than the slice raises
\* the tail-too-long error, the slice still holding its elements.
C6_EnginesRejectLongTail ==
  (op \in Engines /\ TailTooLong) =>
     /\ ~Returned
     /\ Panicked => (err = "tailTooLong" /\ SameElements(s, s0))

\* C7: an entry point called with a tail longer than the slice panics, and
\* until then neither s nor buf has been written.
C7_EntryPointsRejectLongTail ==
  (op \in EntryPoints /\ TailTooLong) => /\ ~Returned
                                           /\ s = s0
                                           /\ buf = buf0

C7_Witness ==
  /\ op \in EntryPoints /\ TailTooLong /\ Panicked
  /\ Len(s0) > 1 /\ s0 # Sort(s0)

\* C8: an entry point called with tail length 0 returns with every position
\* of s unchanged, whatever s holds.
C8_NoTailNoOp ==
  (op \in EntryPoints /\ tailLength0 = 0) => /\ ~Panicked
                                              /\ s = s0

C8_Witness ==
  /\ op = "AppendedWithBuf" /\ tailLength0 = 0 /\ Returned
  /\ s0 # Sort(s0)

\* C9: when the tail is the whole slice (k = n >= 1), the entry points and
\* the in-place and buffered engines run no iteration of an insertion loop
\* and return the slice sort.Sort makes of the input.
C9_WholeTailIsFullSort ==
  (/\ op \in EntryPoints \cup {"groupInsertAppendSort", "groupInsertAppendSortWithBuf"}
   /\ tailLength0 = Len(s0)
   /\ Len(s0) >= 1) =>
     /\ iters = 0
     /\ ~Panicked
     /\ Returned => (path = "fallback" /\ s = Sort(s0))

C9_Witness ==
  /\ op = "groupInsertAppendSort" /\ tailLength0 = Len(s0) /\ Len(s0) >= 2
  /\ Returned /\ s # s0

\* C10: for a fixed slice length, once a selector has rejected a tail size it
\* rejects every larger tail size up to the slice length.
C10_SelectorsMonotone == sel.rejected => ~sel.result

BufferedOps == {"AppendedWithBuf", "groupInsertAppendSortWithBuf"}

\* other contents a buffer of k elements may have at call time
OtherBuffers(k) ==
  {[i \in 1..k |-> MaxVal],
   [i \in 1..k |-> i % (MaxVal + 1)],
   [i \in 1..k |-> (k - i) % (MaxVal + 1)]}

WithBufResult(o, q, b) ==
  IF o = "AppendedWithBuf" THEN AppendedWithBufResult(q, b)
  ELSE groupInsertAppendSortWithBufResult(q, b)

\* C11: a call of AppendedWithBuf or groupInsertAppendSortWithBuf ends with
\* the s that the same call ends with on any other buffer of the same length,
\* and ends the same way (return or panic); when the loop starts the buffer
\* holds the sorted tail, whatever it held before.
C11_BufferContentsIrrelevant ==
  op \in BufferedOps =>
    /\ (Returned \/ Panicked) =>
         \A b \in OtherBuffers(Len(buf0)) :
            WithBufResult(op, s0, b) = [s |-> s, ok |-> Returned]
    /\ pc = "groupInsertAppendSortWithBufLoop" =>
         buf = Sort(SubSlice(s0, Len(s0) - Len(buf0), Len(s0)))

C11_Witness ==
  /\ op \in BufferedOps /\ Returned /\ path = "engine" /\ iters > 1 /\ s # s0
  /\ buf0 # buf
  /\ \E b \in OtherBuffers(Len(buf0)) : b # buf0 /\ b # buf

InsertionLoops == {"groupInsertAppendSortLoop", "groupInsertAppendSortWithBufLoop"}

\* an iteration of an insertion loop is taken
InsertionStep == pc \in InsertionLoops /\ iters' = iters + 1

\* the candidate tail element of the iteration about to run
Candidate ==
  IF pc = "groupInsertAppendSortLoop" THEN s[unsortedStartIdx + 1]
  ELSE buf[unsortedCount]

\* the leftmost i in [0, u) with q[i] > x, or u
FirstGreater(q, u, x) ==
  CHOOSE i \in 0..u :
    /\ i = u \/ q[i + 1] > x
    /\ \A j \in 0..(i - 1) : ~(q[j + 1] > x)

\* the leftmost i in [0, u) with q[i] >= x, or u
FirstNotLess(q, u, x) ==
  CHOOSE i \in 0..u :
    /\ i = u \/ q[i + 1] >= x
    /\ \A j \in 0..(i - 1) : ~(q[j + 1] >= x)

\* C12 as stated: in every iteration of the in-place and of the buffered
\* loop the binary search over [0, unsortedStartIdx) returns the leftmost
\* position whose element is not less than the candidate (unsortedStartIdx
\* when there is none), also when the prefix holds elements equal to it.
C12_SearchFindsFirstNotLess ==
  [][(Precondition /\ InsertionStep) =>
       leftIdx' = FirstNotLess(s, unsortedStartIdx, Candidate)]_vars

\* C12 amended: the binary search returns the leftmost position whose
\* element is greater than the candidate (unsortedStartIdx when there is
\* none): elements of the prefix equal to the candidate stay on its left.
C12_SearchFindsFirstGreater ==
  [][(Precondition /\ InsertionStep) =>
       leftIdx' = FirstGreater(s, unsortedStartIdx, Candidate)]_vars

\* after an iteration the candidate lies at unsortedEnd; here an element
\* equal to it lies left of the position found
C12_Witness ==
  /\ pc \in InsertionLoops /\ Precondition /\ iters > 0 /\ branch # "reverse"
  /\ leftIdx < splitIdx
  /\ \E i \in 0..(leftIdx - 1) : s[i + 1] = s[unsortedEnd + 1]

\* the positions a bulk copy reads and the positions it writes
Src(c) == c.src .. (c.src + c.n - 1)
Dst(c) == c.dst .. (c.dst + c.n - 1)

\* C13: in the buffered engine the bulk copies relocate each element of the
\* prefix at most once: the positions left of unsortedStartIdx still hold
\* what they held at call time, a copy reads prefix positions only and none
\* that an earlier copy read, the elements it shifts land beyond unsortedEnd,
\* and no later copy reads or writes a position an earlier copy wrote.
C13_CopiedAtMostOnce ==
  (op \in BufferedOps /\ pc = "groupInsertAppendSortWithBufLoop") =>
    /\ SubSlice(s, 0, unsortedStartIdx) = SubSlice(s0, 0, unsortedStartIdx)
    /\ \A j \in 1..Len(copies) :
         /\ Src(copies[j]) \subseteq 0..(splitIdx - 1)
         /\ \A p \in Dst(copies[j]) : unsortedEnd < p /\ p < Len(s)
         /\ \A i \in 1..(j - 1) :
              /\ Src(copies[i]) \cap Src(copies[j]) = {}
              /\ Dst(copies[i]) \cap Src(copies[j]) = {}
              /\ Dst(copies[i]) \cap Dst(copies[j]) = {}

\* two iterations have each shifted a block of the prefix, the second by
\* several elements
C13_Witness ==
  /\ op \in BufferedOps /\ Precondition /\ pc = "groupInsertAppendSortWithBufLoop"
  /\ Len(copies) >= 2
  /\ copies[1].n > 0 /\ copies[2].n > 1

\* h = s[splitIdx:splitIdx+hlen] of the current call is a min-heap
IsMinHeap ==
  \A j \in 1..(hlen - 1) :
    ~Less(s, base + splitIdx + j, base + splitIdx + ((j - 1) \div 2))

\* C14 as stated: when the main pass of heapAppendSort finishes on a slice
\* with a sorted prefix, the heap h holds at most one element.
C14_HeapAtMostOne ==
  (op = "heapAppendSort" /\ Precondition /\ pc = "heapAppendSortAfter") => hlen <= 1

\* C14 amended: when the main pass finishes, h is a min-heap lying in
\* s[splitIdx:rightIdx], left of the sorted remainder, and holds fewer than
\* tailLength elements.
C14_HeapWithinTail ==
  (op = "heapAppendSort" /\ pc = "heapAppendSortAfter") =>
    /\ 0 <= hlen
    /\ splitIdx + hlen <= rightIdx
    /\ rightIdx <= WinLen
    /\ hlen < tailLength
    /\ IsMinHeap

\* the main pass has left three elements in the heap
C14_Witness ==
  /\ op = "heapAppendSort" /\ Precondition /\ pc = "heapAppendSortAfter"
  /\ hlen >= 3

\* heapAppendSort, past its main pass and its two early returns, is about to
\* sort the residual window or to rotate it and recurse
HeapDecision ==
  /\ pc = "heapAppendSortAfter"
  /\ hlen > 0
  /\ ~(hlen = 1 /\ Less(s, base + splitIdx, base + rightIdx))

\* the residual window s[splitIdx:] of the current call
ResidualWindow(q) == SubSlice(q, base + splitIdx, Len(q))

\* the step rotates the residual window and recurses on it with tail m
HeapRecurses ==
  /\ pc' = "heapAppendSort"
  /\ base' = base + splitIdx
  /\ tailLength' = hlen
  /\ s' = Splice(s, base + splitIdx, Rotate(ResidualWindow(s), tailLength - hlen))

\* the step full-sorts the residual window and returns
HeapSortsResidual ==
  /\ pc' = "done"
  /\ s' = Splice(s, base + splitIdx, Sort(ResidualWindow(s)))

\* the in-place selector of section 4.1
InPlaceSelectorAccepts(size, m) ==
  IF size < 512 THEN 4 * m < size ELSE (m * m) \div 64 < size

\* the selector declared next to heapAppendSort
HeapSelectorAccepts(size, m) ==
  IF size <= 4 THEN FALSE
  ELSE IF size <= 128 THEN 8 * m < size
  ELSE IF size <= 4096 THEN m * m * 4 < size
  ELSE m < 64

\* C15 as stated: left with m = len(h) heap elements in a tail window of
\* size tailLength, heapAppendSort rotates the window and recurses exactly
\* when the in-place selector of Appended accepts (tailLength, m), and
\* otherwise full-sorts the residual window.
C15_RecursesByInPlaceSelector ==
  [][HeapDecision =>
       IF InPlaceSelectorAccepts(tailLength, hlen) THEN HeapRecurses
       ELSE HeapSortsResidual]_vars

\* C15 amended: it rotates the window and recurses exactly when the selector
\* of its own package accepts (tailLength, m) (size <= 4: never; size <= 128:
\* 8*m < size; size <= 4096: 4*m*m < size; otherwise m < 64), and otherwise
\* full-sorts the residual window.
C15_RecursesByOwnSelector ==
  [][HeapDecision =>
       IF HeapSelectorAccepts(tailLength, hlen) THEN HeapRecurses
       ELSE HeapSortsResidual]_vars

\* the residual window was full-sorted where the in-place selector accepts
C15_Witness ==
  /\ op = "heapAppendSort" /\ Precondition /\ Returned /\ branch = "sortTail"
  /\ hlen > 0
  /\ InPlaceSelectorAccepts(tailLength, hlen)
  /\ ~HeapSelectorAccepts(tailLength, hlen)

\* heapAppendSort called with 0 <= k <= n, on any slice
HeapCallInRange ==
  op = "heapAppendSort" /\ 0 <= tailLength0 /\ tailLength0 <= Len(s0)

\* the step is a recursive call of heapAppendSort
HeapRecursiveCall == pc = "heapAppendSortAfter" /\ pc' = "heapAppendSort"

\* what is left to do of a call of heapAppendSort: the window left, then
\* the place in the call (entry, main pass with the indices left, the
\* decision after it, the end)
HeapMeasure ==
  (WinLen * (Len(s) + 4))
    + (CASE pc = "heapAppendSort" -> Len(s) + 3
         [] pc = "heapAppendSortLoop" -> (splitIdx - idx) + 2
         [] pc = "heapAppendSortAfter" -> 1
         [] OTHER -> 0)

\* C16: every recursive call of heapAppendSort is made on s[splitIdx:] with
\* splitIdx > 0, a window strictly shorter than s, and with the tail length
\* len(h), strictly smaller than tailLength and no longer than the window;
\* the depth of the recursion is bounded by the tail length; and a call with
\* 0 <= k <= n ends: every step of it lowers a measure that is never
\* negative, and leads to the next step of the call or to its return, never
\* to a panic.
C16_RecursionShrinksAndEnds ==
  [][HeapCallInRange =>
       /\ HeapRecursiveCall =>
            /\ splitIdx > 0
            /\ base' = base + splitIdx
            /\ WinLen' < WinLen
            /\ tailLength' = hlen
            /\ tailLength' < tailLength
            /\ tailLength' <= WinLen'
            /\ depth' = depth + 1
       /\ HeapMeasure' < HeapMeasure
       /\ HeapMeasure' >= 0
       /\ depth' + tailLength' <= tailLength0
       /\ pc' \in {"heapAppendSort", "heapAppendSortLoop", "heapAppendSortAfter", "done"}]_vars

\* a recursive call has been made, on a slice whose prefix was not sorted,
\* and the first call has returned
C16_Witness ==
  /\ HeapCallInRange /\ Returned /\ depth >= 1 /\ HeapMeasure < Len(s) * (Len(s) + 4)
  /\ ~Precondition

InPlaceOps == {"Appended", "groupInsertAppendSort"}

\* the head of an iteration of the in-place loop
InPlaceHead == op \in InPlaceOps /\ Precondition /\ pc = "groupInsertAppendSortLoop"

\* the three zones of the slice at the head of an iteration
InPlaceLoopInv ==
  LET u == unsortedStartIdx
      c == unsortedCount
      n == Len(s)
  IN /\ 0 <= u /\ 0 <= c
     /\ unsortedEnd = u + c
     /\ u + c <= n
     /\ IsSorted(SubSlice(s, 0, u))
     /\ IsSorted(Reverse(SubSlice(s, u, u + c)))
     /\ IsSorted(SubSlice(s, u + c, n))
     /\ \A i \in 1..(u + c), j \in (u + c + 1)..n : s[i] <= s[j]

\* C17: at the head of every iteration of the in-place loop, with
\* u = unsortedStartIdx and c = unsortedCount: unsortedEnd = u + c <= n;
\* s[0..u) is ascending; s[u..u+c) is non-increasing; s[u+c..n) is ascending
\* and none of its elements is below an element of s[0..u+c); from one
\* iteration to the next unsortedStartIdx does not increase; the search
\* result lies in 0..u and no index of the iteration is out of range.
C17_InPlaceLoopInvariant ==
  [][/\ InPlaceHead => InPlaceLoopInv
     /\ InPlaceHead' => InPlaceLoopInv'
     /\ (InPlaceHead /\ unsortedCount > 0) =>
          /\ unsortedStartIdx < Len(s)
          /\ unsortedStartIdx' <= unsortedStartIdx
          /\ 0 <= leftIdx' /\ leftIdx' <= unsortedStartIdx
          /\ pc' # "panic"]_vars

\* the head of the third iteration, the three zones holding elements and
\* the marker moved left
C17_Witness ==
  /\ InPlaceHead /\ iters = 2
  /\ 0 < unsortedStartIdx /\ unsortedStartIdx < splitIdx
  /\ unsortedCount > 0 /\ unsortedEnd < Len(s)

\* C18: in the in-place engine called on a sorted prefix, the branch taken
\* when leftIdx == unsortedStartIdx and the candidate is less than its left
\* neighbour (the rotation by 2) is never executed: with leftIdx ==
\* unsortedStartIdx > 0 the candidate is not less than its left neighbour,
\* and the iteration takes the rotation by 1 or, at position 0, the reverse.
C18_NoRotateByTwo ==
  (op \in InPlaceOps /\ Precondition) =>
    /\ branch # "rotate2"
    /\ (pc = "groupInsertAppendSortLoop" /\ unsortedCount > 0 /\ unsortedStartIdx > 0
          /\ Search(unsortedStartIdx,
                    [i \in 1..unsortedStartIdx |-> Less(s, unsortedStartIdx, i - 1)])
               = unsortedStartIdx) =>
         ~Less(s, unsortedStartIdx, unsortedStartIdx - 1)

\* the search has returned unsortedStartIdx > 0 and the rotation by 1 ran
C18_Witness ==
  /\ op \in InPlaceOps /\ Precondition
  /\ branch = "rotate1" /\ leftIdx = unsortedStartIdx /\ leftIdx > 0

InsertionOps == {"groupInsertAppendSort", "groupInsertAppendSortWithBuf"}

\* an insertion engine called with 0 <= k <= n, on any slice
InsertionCallInRange ==
  op \in InsertionOps /\ 0 <= tailLength0 /\ tailLength0 <= Len(s0)

\* what is left to do of a call of an insertion engine
InsertionMeasure ==
  CASE pc \in InsertionOps -> Len(s) + 2
    [] pc \in InsertionLoops -> unsortedCount + 1
    [] OTHER -> 0

\* C19: groupInsertAppendSort(s, k) and groupInsertAppendSortWithBuf(s, buf)
\* with len(buf) = k, for any s and any k in 0..n, the prefix sorted or not,
\* end without a panic or an index out of range: every step lowers a
\* measure that is never negative and leads to the next step or to the
\* return; and the s returned is a permutation of the s passed.
C19_UnsortedPrefixIsSafe ==
  [][InsertionCallInRange =>
       /\ pc' \in InsertionLoops \cup {"done"}
       /\ InsertionMeasure' < InsertionMeasure
       /\ InsertionMeasure' >= 0
       /\ Len(s') = Len(s0)
       /\ pc' = "done" => SameElements(s', s0)]_vars

\* an engine has run its loop on a slice whose prefix was not sorted and has
\* returned a slice that is not sorted
C19_Witness ==
  /\ InsertionCallInRange /\ Returned /\ ~Precondition
  /\ path = "engine" /\ iters >= 2 /\ s # s0 /\ ~IsSorted(s)

====
